---- MODULE Spec2Model ----
(***************************************************************************)
(* Model of src/app.py: the /api-endpoint handler, the background build    *)
(* task it starts (generate -> publish -> notify) and the notifier's       *)
(* retry loop, together with the remote source host the tasks act on.      *)
(***************************************************************************)
EXTENDS Integers, Sequences, FiniteSets, TLC

\* ------------------------------------------------------------------------
\* Bounds of the model
\* ------------------------------------------------------------------------
MaxReqs == 2          \* number of POSTs the endpoint receives

Reqs == 1..MaxReqs

\* ------------------------------------------------------------------------
\* Values
\* ------------------------------------------------------------------------
None == "None"                        \* Python None (missing key, unset env)
TaskIds == {"42", "7"}
EvalUrl == "https://eval.example/cb"
Secrets == {"S", "X"}

\* A parsed JSON body as request.get_json() hands it to the handler.
\* kind: "null" (no body), "object" or "array"; size: number of entries;
\* a key of an object that is missing reads as None through .get().
MkBody(k, n, s, t, e) ==
    [kind |-> k, size |-> n, secret |-> s, task |-> t, evaluation_url |-> e,
     email |-> None, round |-> None, nonce |-> None]

\* the same object with the three optional fields email, round and nonce
WithExtras(b) ==
    [b EXCEPT !.size = @ + 3, !.email = "a@example.com", !.round = "1",
              !.nonce = "n-1"]

NullBody == MkBody("null", 0, None, None, None)
EmptyObject == MkBody("object", 0, None, None, None)
EmptyArray == MkBody("array", 0, None, None, None)
OneArray == MkBody("array", 1, None, None, None)

ObjectBodies ==
    { MkBody("object", 1 + (IF s = None THEN 0 ELSE 1) + (IF e = None THEN 0 ELSE 1),
             s, t, e) :
        s \in Secrets \cup {None}, t \in TaskIds, e \in {None, "", EvalUrl} }

\* the complete request: every optional field present
FullBodies ==
    { WithExtras(b) :
        b \in { o \in ObjectBodies : o.evaluation_url = EvalUrl /\ o.task = "42" } }

Bodies == {NullBody, EmptyObject, EmptyArray, OneArray} \cup ObjectBodies \cup FullBodies

\* Python truthiness of a parsed body: None, {} and [] are falsy.
Truthy(data) == data.kind # "null" /\ data.size > 0

\* data.get(key): only objects have .get
HasGet(data) == data.kind = "object"

\* Outcomes of one POST made by requests.post: a status, or a transport error
PostOutcomes == {"200", "201", "500", "RequestException"}

\* Outcomes of a call to the source host or the language model
Ok == "ok"
GithubException == "GithubException"
\* UnknownObjectException (404), a subclass of GithubException
NotFound == "UnknownObjectException"
OtherException == "Exception"

\* ------------------------------------------------------------------------
\* State
\* ------------------------------------------------------------------------
VARIABLES
    expected_secret,   \* os.getenv("MY_APP_SECRET")
    data,              \* data[r]: the body of request r
    hpc,               \* hpc[r]: position of handle_build_request for r
    resp,              \* resp[r]: the response sent for r
    tpc,               \* tpc[r]: position of process_build_task for r
    calls,             \* calls[r]: the external calls the task of r has made,
                       \*           each with its outcome, in order
    fileIdx,           \* fileIdx[r]: files committed so far by the task of r
    i,                 \* i[r]: loop index of notify_evaluator
    delay,             \* delay[r]: notify_evaluator's delay
    waits,             \* waits[r]: the sleeps notify_evaluator has made
    result,            \* result[r]: notify_evaluator's return value
    commit_sha,        \* commit_sha[r]: the head commit the task of r read
    repos,             \* repos[n]: the repository named n on the source host
    lastRun            \* lastRun[r]: r began publishing after all others ended

vars == <<expected_secret, data, hpc, resp, tpc, calls, fileIdx, i, delay,
          waits, result, commit_sha, repos, lastRun>>

\* ------------------------------------------------------------------------
\* handle_build_request
\* ------------------------------------------------------------------------
\* data.get(key) on an object body
Get(d, key) ==
    CASE key = "secret" -> d.secret
      [] key = "task" -> d.task
      [] key = "evaluation_url" -> d.evaluation_url
      [] key = "email" -> d.email
      [] key = "round" -> d.round
      [] key = "nonce" -> d.nonce

\* `not data or data.get('secret') != expected_secret` raises AttributeError
\* when data is truthy and has no .get (a non-empty JSON array)
RaisesAttributeError(d) == Truthy(d) /\ ~HasGet(d)

\* line 190 with `and` for `or`
UnauthorizedAnd(d, expected) ==
    ~Truthy(d) /\ Get(d, "secret") # expected

\* the condition of line 190, for a body on which it does not raise
Unauthorized(d, expected) ==
    ~Truthy(d) \/ Get(d, "secret") # expected

NoResponse == [status |-> 0, key |-> "", value |-> ""]
UnauthorizedResponse == [status |-> 403, key |-> "error", value |-> "Unauthorized"]
ServerErrorResponse == [status |-> 500, key |-> "", value |-> ""]
\* line 196 answering 202 Accepted
AckResponse202 ==
    [status |-> 202, key |-> "status",
     value |-> "Request received and is being processed."]

AckResponse ==
    [status |-> 200, key |-> "status",
     value |-> "Request received and is being processed."]

\* requests are numbered in the order in which they arrive
NextToArrive(r) == hpc[r] = "idle" /\ \A q \in Reqs : q < r => hpc[q] # "idle"

TaskVars == <<calls, fileIdx, i, delay, waits, result, commit_sha, repos, lastRun>>

\* lines 188-194: parse, check the secret, start the thread
HandleBuildRequest(r, body) ==
    /\ NextToArrive(r)
    /\ data' = [data EXCEPT ![r] = body]
    /\ IF RaisesAttributeError(body)
         THEN /\ hpc' = [hpc EXCEPT ![r] = "returned"]
              /\ resp' = [resp EXCEPT ![r] = ServerErrorResponse]
              /\ UNCHANGED tpc
         ELSE IF Unauthorized(body, expected_secret)
           THEN /\ hpc' = [hpc EXCEPT ![r] = "returned"]
                /\ resp' = [resp EXCEPT ![r] = UnauthorizedResponse]
                /\ UNCHANGED tpc
           ELSE /\ hpc' = [hpc EXCEPT ![r] = "started"]
                /\ tpc' = [tpc EXCEPT ![r] = "gen_html"]
                /\ UNCHANGED resp
    /\ UNCHANGED <<expected_secret, TaskVars>>

\* line 196 behind a thread.join()
HandleReturnJoined(r) ==
    /\ hpc[r] = "started"
    /\ tpc[r] \in {"done", "error"}
    /\ hpc' = [hpc EXCEPT ![r] = "returned"]
    /\ resp' = [resp EXCEPT ![r] = AckResponse]
    /\ UNCHANGED <<expected_secret, data, tpc, TaskVars>>

\* line 196: the acknowledgement, sent once thread.start() has returned
HandleReturn(r) ==
    /\ hpc[r] = "started"
    /\ hpc' = [hpc EXCEPT ![r] = "returned"]
    /\ resp' = [resp EXCEPT ![r] = AckResponse]
    /\ UNCHANGED <<expected_secret, data, tpc, TaskVars>>

\* ------------------------------------------------------------------------
\* The source host: repositories of the authenticated account, by name
\* ------------------------------------------------------------------------
RepoName(task_id) == "llm-app-" \o task_id

RepoNames == { RepoName(t) : t \in TaskIds }

NoRepo == [exists |-> FALSE, by |-> 0, files |-> <<>>]

MIT_LICENSE == [text |-> "MIT_LICENSE", run |-> 0]
GITHUB_WORKFLOW_YAML == [text |-> "GITHUB_WORKFLOW_YAML", run |-> 0]
\* the two artifacts the language model returned to the task of r
generated_html(r) == [text |-> "generated_html", run |-> r]
generated_readme(r) == [text |-> "generated_readme", run |-> r]

\* lines 149-152: the four create_file calls, in order
NumFiles == 4
FilePath(k) ==
    CASE k = 1 -> "LICENSE"
      [] k = 2 -> "README.md"
      [] k = 3 -> "index.html"
      [] k = 4 -> ".github/workflows/deploy.yml"

FileContent(r, k) ==
    CASE k = 1 -> MIT_LICENSE
      [] k = 2 -> generated_readme(r)
      [] k = 3 -> generated_html(r)
      [] k = 4 -> GITHUB_WORKFLOW_YAML

PathsOf(repo) == { repo.files[k].path : k \in 1..Len(repo.files) }

\* the head commit of the default branch: who made it, and how many commits
\* the branch has
NoCommit == [by |-> 0, n |-> 0]
HeadCommit(repo) ==
    IF Len(repo.files) = 0 THEN NoCommit
    ELSE [by |-> repo.files[Len(repo.files)].by, n |-> Len(repo.files)]

\* user.login, repo.html_url and line 161
Login == "account"
HtmlUrl(name) == "https://github.com/" \o Login \o "/" \o name
PagesUrl(login, name) == "https://" \o login \o ".github.io/" \o name \o "/"

\* what the host can answer to each call, given the repository's state:
\* a call may always fail (rate limit, permission, network)
\* (a rate-limit error for a name that does not exist takes the task the
\* same way as the 404 and is not kept apart from it)
GetRepoOutcomes(n) ==
    IF repos[n].exists THEN {Ok, GithubException, OtherException}
                       ELSE {NotFound, OtherException}
DeleteOutcomes(n) ==
    IF repos[n].exists THEN {Ok, GithubException, OtherException}
                       ELSE {NotFound, OtherException}
\* (outside the inner try the class of an exception makes no difference to
\* the task, line 180 catching every Exception: these calls raise one kind)
CreateRepoOutcomes(n) ==
    IF repos[n].exists THEN {GithubException}
                       ELSE {Ok, GithubException}
CreateFileOutcomes(n, path) ==
    IF repos[n].exists /\ path \notin PathsOf(repos[n])
      THEN {Ok, GithubException}
      ELSE {GithubException}
GetBranchOutcomes(n) ==
    IF repos[n].exists /\ Len(repos[n].files) > 0
      THEN {Ok, GithubException}
      ELSE {GithubException}

\* ------------------------------------------------------------------------
\* process_build_task
\* ------------------------------------------------------------------------
task_id(r) == Get(data[r], "task")
repo_name(r) == RepoName(task_id(r))

Terminal(r) == tpc[r] \in {"done", "error"}

Issue(r, call, out) ==
    calls' = [calls EXCEPT ![r] = Append(@, [op |-> call, out |-> out])]

Ops(r) == { calls[r][k].op : k \in 1..Len(calls[r]) }

\* an exception that is swallowed: the task goes on
AfterCallSwallowed(out, next) == next

\* where the task goes when a call returns `out`: the except of line 180
\* ends the task on any exception
AfterCall(out, next) == IF out = Ok THEN next ELSE "error"

\* lines 104-109: the first language-model call
GenerateHtml(r, out) ==
    /\ tpc[r] = "gen_html"
    /\ Issue(r, "llm_html", out)
    /\ tpc' = [tpc EXCEPT ![r] = AfterCall(out, "gen_readme")]
    /\ UNCHANGED <<expected_secret, data, hpc, resp, fileIdx, i, delay, waits,
                   result, commit_sha, repos, lastRun>>

\* lines 127-132: the second language-model call
GenerateReadme(r, out) ==
    /\ tpc[r] = "gen_readme"
    /\ Issue(r, "llm_readme", out)
    /\ tpc' = [tpc EXCEPT ![r] = AfterCall(out, "get_repo")]
    /\ UNCHANGED <<expected_secret, data, hpc, resp, fileIdx, i, delay, waits,
                   result, commit_sha, repos, lastRun>>

\* the inner try of lines 139-144 swallows a GithubException
AfterProbe(out, next) ==
    CASE out = Ok -> next
      [] out \in {GithubException, NotFound} -> "create_repo"
      [] OTHER -> "error"

\* runs of the same task identifier that have begun to publish
Rivals(r) ==
    { q \in Reqs \ {r} :
        /\ tpc[q] # "none"
        /\ task_id(q) = task_id(r)
        /\ "get_repo" \in Ops(q) }

\* lines 140-146 reusing an existing repository instead of replacing it
GetRepoReused(r, out) ==
    /\ tpc[r] = "get_repo"
    /\ out \in GetRepoOutcomes(repo_name(r))
    /\ Issue(r, "get_repo", out)
    /\ tpc' = [tpc EXCEPT ![r] = AfterProbe(out, "create_file")]
    /\ lastRun' = [q \in Reqs |->
                     IF q = r THEN \A p \in Rivals(r) : Terminal(p)
                     ELSE IF q \in Rivals(r) THEN FALSE ELSE lastRun[q]]
    /\ UNCHANGED <<expected_secret, data, hpc, resp, fileIdx, i, delay, waits,
                   result, commit_sha, repos>>

\* line 140: user.get_repo(repo_name)
GetRepo(r, out) ==
    /\ tpc[r] = "get_repo"
    /\ out \in GetRepoOutcomes(repo_name(r))
    /\ Issue(r, "get_repo", out)
    /\ tpc' = [tpc EXCEPT ![r] = AfterProbe(out, "delete")]
    /\ lastRun' = [q \in Reqs |->
                     IF q = r THEN \A p \in Rivals(r) : Terminal(p)
                     ELSE IF q \in Rivals(r) THEN FALSE ELSE lastRun[q]]
    /\ UNCHANGED <<expected_secret, data, hpc, resp, fileIdx, i, delay, waits,
                   result, commit_sha, repos>>

\* line 141: old_repo.delete()
DeleteRepo(r, out) ==
    /\ tpc[r] = "delete"
    /\ out \in DeleteOutcomes(repo_name(r))
    /\ Issue(r, "delete", out)
    /\ tpc' = [tpc EXCEPT ![r] = AfterProbe(out, "create_repo")]
    /\ repos' = IF out = Ok THEN [repos EXCEPT ![repo_name(r)] = NoRepo] ELSE repos
    /\ UNCHANGED <<expected_secret, data, hpc, resp, fileIdx, i, delay, waits,
                   result, commit_sha, lastRun>>

\* line 146: user.create_repo(repo_name, private=False)
CreateRepo(r, out) ==
    /\ tpc[r] = "create_repo"
    /\ out \in CreateRepoOutcomes(repo_name(r))
    /\ Issue(r, "create_repo", out)
    /\ tpc' = [tpc EXCEPT ![r] = AfterCall(out, "create_file")]
    /\ repos' = IF out = Ok
                  THEN [repos EXCEPT ![repo_name(r)] =
                          [exists |-> TRUE, by |-> r, files |-> <<>>]]
                  ELSE repos
    /\ UNCHANGED <<expected_secret, data, hpc, resp, fileIdx, i, delay, waits,
                   result, commit_sha, lastRun>>

\* lines 149-152 with a commit that is tried again when it fails
CreateFileRetried(r, out) ==
    /\ tpc[r] = "create_file"
    /\ LET k == fileIdx[r] + 1
           n == repo_name(r)
       IN /\ out \in CreateFileOutcomes(n, FilePath(k))
          /\ Issue(r, FilePath(k), out)
          /\ IF out = Ok
               THEN /\ repos' = [repos EXCEPT ![n].files =
                                   Append(@, [path |-> FilePath(k),
                                              content |-> FileContent(r, k),
                                              by |-> r])]
                    /\ fileIdx' = [fileIdx EXCEPT ![r] = k]
                    /\ tpc' = [tpc EXCEPT ![r] =
                                 IF k = NumFiles THEN "get_branch" ELSE "create_file"]
               ELSE /\ tpc' = [tpc EXCEPT ![r] =
                                 IF FilePath(k) \notin Ops(r) THEN "create_file"
                                 ELSE "error"]
                    /\ UNCHANGED <<repos, fileIdx>>
    /\ UNCHANGED <<expected_secret, data, hpc, resp, i, delay, waits,
                   result, commit_sha, lastRun>>

\* lines 149-152: the next of the four repo.create_file calls
CreateFile(r, out) ==
    /\ tpc[r] = "create_file"
    /\ LET k == fileIdx[r] + 1
           n == repo_name(r)
       IN /\ out \in CreateFileOutcomes(n, FilePath(k))
          /\ Issue(r, FilePath(k), out)
          /\ IF out = Ok
               THEN /\ repos' = [repos EXCEPT ![n].files =
                                   Append(@, [path |-> FilePath(k),
                                              content |-> FileContent(r, k),
                                              by |-> r])]
                    /\ fileIdx' = [fileIdx EXCEPT ![r] = k]
                    /\ tpc' = [tpc EXCEPT ![r] =
                                 IF k = NumFiles THEN "get_branch" ELSE "create_file"]
               ELSE /\ tpc' = [tpc EXCEPT ![r] = "error"]
                    /\ UNCHANGED <<repos, fileIdx>>
    /\ UNCHANGED <<expected_secret, data, hpc, resp, i, delay, waits,
                   result, commit_sha, lastRun>>

\* line 166 dropped: notify unconditionally
ShouldNotifyAlways(evaluation_url) == TRUE

\* line 166: `if evaluation_url:` (None and "" are falsy)
ShouldNotify(evaluation_url) == evaluation_url \notin {None, ""}

\* lines 63-64
max_retries == 5
InitialDelay == 1

\* lines 156-178 with the notification moved to a `finally`
GetBranchThenNotifyAnyway(r, out) ==
    /\ tpc[r] = "get_branch"
    /\ out \in GetBranchOutcomes(repo_name(r))
    /\ Issue(r, "get_branch", out)
    /\ tpc' = [tpc EXCEPT ![r] =
                 IF ShouldNotify(Get(data[r], "evaluation_url"))
                   THEN "notify" ELSE IF out = Ok THEN "done" ELSE "error"]
    /\ delay' = [delay EXCEPT ![r] = InitialDelay]
    /\ commit_sha' = [commit_sha EXCEPT ![r] =
                        IF out = Ok THEN HeadCommit(repos[repo_name(r)]) ELSE @]
    /\ UNCHANGED <<expected_secret, data, hpc, resp, fileIdx, i, waits,
                   result, repos, lastRun>>

\* lines 156-178: read the head commit, then notify or skip; entering
\* notify_evaluator sets delay = 1 (line 63)
GetBranch(r, out) ==
    /\ tpc[r] = "get_branch"
    /\ out \in GetBranchOutcomes(repo_name(r))
    /\ Issue(r, "get_branch", out)
    /\ tpc' = [tpc EXCEPT ![r] =
                 IF out # Ok THEN "error"
                 ELSE IF ShouldNotify(Get(data[r], "evaluation_url"))
                   THEN "notify" ELSE "done"]
    /\ delay' = [delay EXCEPT ![r] = IF out = Ok THEN InitialDelay ELSE @]
    /\ commit_sha' = [commit_sha EXCEPT ![r] =
                        IF out = Ok THEN HeadCommit(repos[repo_name(r)]) ELSE @]
    /\ UNCHANGED <<expected_secret, data, hpc, resp, fileIdx, i, waits,
                   result, repos, lastRun>>

\* lines 167-175: the payload every POST of the task of r carries
Payload(r) ==
    [email |-> Get(data[r], "email"),
     task |-> task_id(r),
     round |-> Get(data[r], "round"),
     nonce |-> Get(data[r], "nonce"),
     repo_url |-> HtmlUrl(repo_name(r)),
     commit_sha |-> commit_sha[r],
     pages_url |-> PagesUrl(Login, repo_name(r))]

\* ------------------------------------------------------------------------
\* notify_evaluator
\* ------------------------------------------------------------------------
\* what a POST was answered, as the log of calls keeps it
Answer(outcome) == IF outcome = "200" THEN "200" ELSE "not200"

\* line 69 accepting any 2xx status
IsSuccessAny2xx(outcome) == outcome \in {"200", "201"}

\* line 69: response.status_code == 200
IsSuccess(outcome) == outcome = "200"

\* line 77 with a linear backoff
NextDelayLinear(d) == d + 1

\* line 77: delay *= 2
NextDelay(d) == d * 2

\* lines 65-77: one iteration of the retry loop: POST; on 200 return True
\* (and the task ends); otherwise sleep(delay) and double the delay
NotifyAttempt(r, outcome) ==
    /\ tpc[r] = "notify"
    /\ i[r] < max_retries
    /\ Issue(r, "post", Answer(outcome))
    /\ IF IsSuccess(outcome)
         THEN /\ result' = [result EXCEPT ![r] = "True"]
              /\ tpc' = [tpc EXCEPT ![r] = "done"]
              /\ UNCHANGED <<i, delay, waits>>
         ELSE /\ waits' = [waits EXCEPT ![r] = Append(@, delay[r])]
              /\ delay' = [delay EXCEPT ![r] = NextDelay(@)]
              /\ i' = [i EXCEPT ![r] = @ + 1]
              /\ UNCHANGED <<result, tpc>>
    /\ UNCHANGED <<expected_secret, data, hpc, resp, fileIdx, commit_sha, repos, lastRun>>

\* lines 79-80 raising instead of returning False
NotifyExhaustedRaises(r) ==
    /\ tpc[r] = "notify"
    /\ i[r] = max_retries
    /\ tpc' = [tpc EXCEPT ![r] = "error"]
    /\ UNCHANGED <<expected_secret, data, hpc, resp, calls, fileIdx, i, delay,
                   waits, result, commit_sha, repos, lastRun>>

\* lines 65-80 with a loop that never sees its bound
NotifyExhaustedNever(r) ==
    /\ tpc[r] = "notify"
    /\ i[r] = max_retries + 1
    /\ result' = [result EXCEPT ![r] = "False"]
    /\ tpc' = [tpc EXCEPT ![r] = "done"]
    /\ UNCHANGED <<expected_secret, data, hpc, resp, calls, fileIdx, i, delay,
                   waits, commit_sha, repos, lastRun>>

\* lines 79-80: the loop is exhausted: return False, and the task ends
NotifyExhausted(r) ==
    /\ tpc[r] = "notify"
    /\ i[r] = max_retries
    /\ result' = [result EXCEPT ![r] = "False"]
    /\ tpc' = [tpc EXCEPT ![r] = "done"]
    /\ UNCHANGED <<expected_secret, data, hpc, resp, calls, fileIdx, i, delay,
                   waits, commit_sha, repos, lastRun>>

\* ------------------------------------------------------------------------
\* Specification
\* ------------------------------------------------------------------------
Init ==
    /\ expected_secret \in {None, "S"}
    /\ data = [r \in Reqs |-> NullBody]
    /\ hpc = [r \in Reqs |-> "idle"]
    /\ resp = [r \in Reqs |-> NoResponse]
    /\ tpc = [r \in Reqs |-> "none"]
    /\ calls = [r \in Reqs |-> <<>>]
    /\ fileIdx = [r \in Reqs |-> 0]
    /\ i = [r \in Reqs |-> 0]
    /\ delay = [r \in Reqs |-> 0]
    /\ waits = [r \in Reqs |-> <<>>]
    /\ result = [r \in Reqs |-> None]
    /\ commit_sha = [r \in Reqs |-> NoCommit]
    /\ repos = [n \in RepoNames |-> NoRepo]
    /\ lastRun = [r \in Reqs |-> FALSE]

Next ==
    \/ \E r \in Reqs, body \in Bodies : HandleBuildRequest(r, body)
    \/ \E r \in Reqs : HandleReturn(r)
    \/ \E r \in Reqs, out \in {Ok, OtherException} : GenerateHtml(r, out)
    \/ \E r \in Reqs, out \in {Ok, OtherException} : GenerateReadme(r, out)
    \/ \E r \in Reqs, out \in {Ok, NotFound, GithubException, OtherException} :
          GetRepo(r, out)
    \/ \E r \in Reqs, out \in {Ok, NotFound, GithubException, OtherException} :
          DeleteRepo(r, out)
    \/ \E r \in Reqs, out \in {Ok, GithubException} : CreateRepo(r, out)
    \/ \E r \in Reqs, out \in {Ok, GithubException} : CreateFile(r, out)
    \/ \E r \in Reqs, out \in {Ok, GithubException} : GetBranch(r, out)
    \/ \E r \in Reqs, outcome \in PostOutcomes : NotifyAttempt(r, outcome)
    \/ \E r \in Reqs : NotifyExhausted(r)

Spec == Init /\ [][Next]_vars

\* one step of the task of r: an external call of the task returns or raises
TaskStep(r) ==
    \/ \E out \in {Ok, OtherException} : GenerateHtml(r, out)
    \/ \E out \in {Ok, OtherException} : GenerateReadme(r, out)
    \/ \E out \in {Ok, NotFound, GithubException, OtherException} : GetRepo(r, out)
    \/ \E out \in {Ok, NotFound, GithubException, OtherException} : DeleteRepo(r, out)
    \/ \E out \in {Ok, GithubException} : CreateRepo(r, out)
    \/ \E out \in {Ok, GithubException} : CreateFile(r, out)
    \/ \E out \in {Ok, GithubException} : GetBranch(r, out)
    \/ \E outcome \in PostOutcomes : NotifyAttempt(r, outcome)
    \/ NotifyExhausted(r)

\* the service with its secret set (no task reads expected_secret)
InitConfigured == Init /\ expected_secret = "S"

\* every thread is scheduled and every external call returns or raises
FairSpec ==
    InitConfigured /\ [][Next]_vars /\ \A r \in Reqs : WF_vars(TaskStep(r))

TypeOK ==
    /\ \A r \in Reqs : tpc[r] \in {"none", "gen_html", "gen_readme", "get_repo",
                                   "delete", "create_repo", "create_file",
                                   "get_branch", "notify", "done", "error"}
    /\ \A r \in Reqs : hpc[r] \in {"idle", "started", "returned"}

\* ------------------------------------------------------------------------
\* Vocabulary of the properties
\* ------------------------------------------------------------------------
Handled(r) == hpc[r] # "idle"
Accepted(r) == tpc[r] # "none"

CallIdx(r) == 1..Len(calls[r])
Posts(r) == Cardinality({ k \in CallIdx(r) : calls[r][k].op = "post" })
Succeeded(r, op) == \E k \in CallIdx(r) : calls[r][k] = [op |-> op, out |-> Ok]
Raised(r, op) == \E k \in CallIdx(r) : calls[r][k].op = op /\ calls[r][k].out # Ok
Got200(r) == \E k \in CallIdx(r) : calls[r][k] = [op |-> "post", out |-> "200"]

LlmOps == {"llm_html", "llm_readme"}
FilePaths == { FilePath(k) : k \in 1..NumFiles }
RepoOps == {"get_repo", "delete", "create_repo", "get_branch"} \cup FilePaths

Published(r) == Succeeded(r, "get_branch")

\* the states of section 4.5
TaskState(r) ==
    CASE tpc[r] = "none" -> "NONE"
      [] tpc[r] = "gen_html" -> "START"
      [] tpc[r] = "gen_readme" -> "GENERATING"
      [] tpc[r] \in {"get_repo", "delete", "create_repo", "create_file",
                     "get_branch"} -> "PUBLISHING"
      [] tpc[r] = "notify" -> "NOTIFYING"
      [] tpc[r] = "done" -> "DONE"
      [] tpc[r] = "error" -> "ERROR"

\* ------------------------------------------------------------------------
\* Properties
\* ------------------------------------------------------------------------

\* C1: a request whose `secret` differs from the expected secret is answered
\* 403 and starts no task: no call is ever made on its behalf.
C1_WrongSecretRejected ==
    \A r \in Reqs :
        (Handled(r) /\ HasGet(data[r]) /\ data[r].secret # expected_secret)
            => /\ resp[r].status = 403
               /\ ~Accepted(r)
               /\ calls[r] = <<>>

C1_Witness ==
    \E r \in Reqs :
        /\ Handled(r) /\ Truthy(data[r]) /\ HasGet(data[r])
        /\ expected_secret = "S" /\ data[r].secret = "X"
        /\ resp[r].status = 403
        /\ \E q \in Reqs : Accepted(q) /\ calls[q] # <<>>

\* C2: once the thread is started the acknowledgement can be sent, whatever
\* the task is doing and whether or not it ever ends; the answer to an
\* accepted request is 200 whatever became of its task.
C2_ResponseNeverWaits ==
    \A r \in Reqs :
        /\ hpc[r] = "started" => ENABLED HandleReturn(r)
        /\ (hpc[r] = "returned" /\ Accepted(r)) => resp[r].status = 200

C2_Witness ==
    \E r \in Reqs :
        /\ hpc[r] = "returned" /\ resp[r].status = 200
        /\ TaskState(r) = "START"

\* C3: when every POST fails (non-200 status or transport error),
\* notify_evaluator makes exactly 5 POSTs, sleeps 1, 2, 4 and 8 seconds
\* between consecutive POSTs, and returns False.
C3_ExhaustedRetries ==
    \A r \in Reqs :
        /\ (tpc[r] = "done" /\ Posts(r) > 0 /\ ~Got200(r)) => result[r] = "False"
        /\ result[r] = "False" =>
              /\ ~Got200(r)
              /\ Posts(r) = 5
              /\ SubSeq(waits[r], 1, 4) = <<1, 2, 4, 8>>
        \* the k-th sleep precedes POST k+1: POSTs made = sleeps made (+1)
        /\ tpc[r] = "notify" => Posts(r) = Len(waits[r])

C3_Witness ==
    \E r \in Reqs : result[r] = "False" /\ tpc[r] = "done" /\ Posts(r) = 5

\* C4: when the first 200 comes on attempt k (1 <= k <= 5), exactly k POSTs
\* are made, none after the 200, and notify_evaluator returns True.
C4_FirstSuccessStops ==
    /\ [](\A r \in Reqs :
            /\ Got200(r) =>
                  /\ result[r] = "True"
                  /\ Posts(r) = Len(waits[r]) + 1
                  /\ Posts(r) \in 1..5
                  /\ calls[r][Len(calls[r])] = [op |-> "post", out |-> "200"]
            /\ result[r] = "True" => Got200(r))
    /\ [][\A r \in Reqs : Got200(r) => calls'[r] = calls[r]]_vars

C4_Witness ==
    /\ \E r \in Reqs : result[r] = "True" /\ Posts(r) = 5 /\ Len(waits[r]) = 4
    /\ \E r \in Reqs : result[r] = "True" /\ Posts(r) = 1 /\ waits[r] = <<>>

\* C5: if a language-model call of a task raises, the task makes no
\* repository call and no callback POST, and is in ERROR.
C5_LlmFailureStopsTask ==
    \A r \in Reqs :
        (Raised(r, "llm_html") \/ Raised(r, "llm_readme")) =>
            /\ TaskState(r) = "ERROR"
            /\ Ops(r) \cap RepoOps = {}
            /\ Posts(r) = 0

C5_Witness ==
    /\ \E r \in Reqs : Raised(r, "llm_readme") /\ Succeeded(r, "llm_html")
    /\ \E r \in Reqs : Raised(r, "llm_html")

\* the calls a task must have completed before it may notify
FirstPost(r) == CHOOSE k \in CallIdx(r) :
                    /\ calls[r][k].op = "post"
                    /\ \A j \in 1..(k-1) : calls[r][j].op # "post"
DoneBefore(r, op, k) == \E j \in 1..(k-1) : calls[r][j] = [op |-> op, out |-> Ok]

\* C6: a callback POST is made only after both artifacts were produced, the
\* repository created, the four files committed and the head commit read; a
\* task in ERROR has made no callback POST.
C6_NotifyOnlyAfterPublish ==
    \A r \in Reqs :
        /\ Posts(r) > 0 =>
              \A op \in LlmOps \cup {"create_repo", "get_branch"} \cup FilePaths :
                  DoneBefore(r, op, FirstPost(r))
        /\ TaskState(r) = "ERROR" => Posts(r) = 0

C6_Witness ==
    /\ \E r \in Reqs : Posts(r) > 0 /\ fileIdx[r] = 4
    /\ \E r \in Reqs : TaskState(r) = "ERROR" /\ Raised(r, "get_branch")

\* C7: an accepted request without evaluation_url makes no callback POST and
\* never enters NOTIFYING; its task ends in ERROR only when a call raised,
\* and otherwise ends in DONE after both language-model calls and the whole
\* publish sequence.
C7_NoUrlNoCallback ==
    \A r \in Reqs :
        (Accepted(r) /\ data[r].evaluation_url = None) =>
            /\ Posts(r) = 0
            /\ TaskState(r) # "NOTIFYING"
            /\ TaskState(r) = "ERROR" => calls[r][Len(calls[r])].out # Ok
            /\ Published(r) => TaskState(r) = "DONE"
            /\ TaskState(r) = "DONE" =>
                  \A op \in LlmOps \cup {"create_repo", "get_branch"} \cup FilePaths :
                      Succeeded(r, op)

C7_Witness ==
    \E r \in Reqs :
        /\ Accepted(r) /\ data[r].evaluation_url = None
        /\ TaskState(r) = "DONE" /\ Len(calls[r]) >= 8

\* C8: when a run publishes after every earlier run of the same task
\* identifier has ended, the repository llm-app-<task> exists once the run
\* has published, was created by that run, and holds that run's README.md
\* and index.html and nothing of an earlier run.
C8_SecondPublishReplaces ==
    \A r \in Reqs :
        (lastRun[r] /\ Published(r)) =>
            LET repo == repos[RepoName(data[r].task)]
            IN /\ repo.exists
               /\ repo.by = r
               /\ Len(repo.files) = 4
               /\ repo.files[2] = [path |-> "README.md",
                                   content |-> [text |-> "generated_readme", run |-> r],
                                   by |-> r]
               /\ repo.files[3] = [path |-> "index.html",
                                   content |-> [text |-> "generated_html", run |-> r],
                                   by |-> r]
               /\ \A k \in 1..Len(repo.files) : repo.files[k].content.run \in {0, r}

C8_Witness ==
    \E q, r \in Reqs :
        /\ q # r /\ data[q].task = data[r].task
        /\ Published(q) /\ TaskState(q) = "DONE"
        /\ lastRun[r] /\ Published(r) /\ Succeeded(r, "delete")

\* C9 as claimed: every accepted request is answered 200 with the body
\* {"status": "accepted"}.
C9_AckBodyAccepted ==
    \A r \in Reqs :
        (Accepted(r) /\ hpc[r] = "returned") =>
            resp[r] = [status |-> 200, key |-> "status", value |-> "accepted"]

\* C9, amended: every accepted request is answered 200 with the body
\* {"status": "Request received and is being processed."}.
C9_AckBodyReceived ==
    \A r \in Reqs :
        (Accepted(r) /\ hpc[r] = "returned") =>
            resp[r] = [status |-> 200, key |-> "status",
                       value |-> "Request received and is being processed."]

C9_Witness ==
    \E r \in Reqs : Accepted(r) /\ hpc[r] = "returned" /\ resp[r].status = 200

\* C10: every POST is answered 200 or 403; a request with an absent or
\* empty body is answered 403 {"error": "Unauthorized"} and starts no task.
C10_OnlyOkOrForbidden ==
    \A r \in Reqs :
        hpc[r] = "returned" =>
            /\ resp[r].status \in {200, 403}
            /\ (data[r].kind = "null" \/ data[r].size = 0) =>
                  /\ resp[r] = [status |-> 403, key |-> "error",
                                value |-> "Unauthorized"]
                  /\ ~Accepted(r)

\* C11: when all 5 attempts have failed, notify_evaluator returns False and
\* the task ends in DONE, never in ERROR; the step that ends it changes
\* neither a repository nor a response.
C11_ExhaustionIsNotFatal ==
    /\ [](\A r \in Reqs :
            Len(waits[r]) = 5 =>
                /\ TaskState(r) \in {"NOTIFYING", "DONE"}
                /\ TaskState(r) = "DONE" => result[r] = "False")
    /\ [][\A r \in Reqs :
            (Len(waits[r]) = 5 /\ tpc'[r] # tpc[r]) =>
                /\ repos' = repos
                /\ resp' = resp
                /\ hpc' = hpc]_vars

C11_Witness ==
    \E r \in Reqs :
        /\ result[r] = "False" /\ TaskState(r) = "DONE"
        /\ hpc[r] = "returned" /\ resp[r].status = 200
        /\ repos[repo_name(r)].exists /\ Len(repos[repo_name(r)].files) = 4

\* every call the task of r has made succeeded (a 404 is the existence
\* check's answer for a name that is free)
AllSucceeded(r) ==
    \A k \in CallIdx(r) : calls[r][k].out \in {Ok, NotFound, "200"}

\* C12: when every external call of an accepted request with task t and an
\* evaluation_url has succeeded, then as the task ends its publish step
\* (the head commit is read) the repository llm-app-<t> holds exactly
\* LICENSE, README.md, index.html and .github/workflows/deploy.yml, and the
\* callback payload carries task t, pages_url
\* https://<account>.github.io/llm-app-<t>/ and the request's email, round
\* and nonce.
C12_EndToEnd ==
    [][\A r \in Reqs :
        (tpc[r] = "get_branch" /\ tpc'[r] = "notify" /\ AllSucceeded(r)') =>
            LET t == data[r].task
                repo == repos'["llm-app-" \o t]
            IN /\ repo.exists
               /\ Len(repo.files) = 4
               /\ PathsOf(repo) = {"LICENSE", "README.md", "index.html",
                                   ".github/workflows/deploy.yml"}
               /\ Payload(r).task = t
               /\ Payload(r).pages_url =
                     "https://" \o Login \o ".github.io/llm-app-" \o t \o "/"
               /\ Payload(r).email = data[r].email
               /\ Payload(r).round = data[r].round
               /\ Payload(r).nonce = data[r].nonce]_vars

\* a remote-host error: the call raised, other than by the 404 that answers
\* the existence check (or the delete) for a name that is free
HostError(c) == c.op \in RepoOps /\ c.out \notin {Ok, NotFound}

\* C13: a remote-host error raised by any Publisher call of a task (existence
\* check, delete, create, the four commits, branch read) moves the task to
\* ERROR; the failed call is the last call the task makes.
C13_HostErrorEndsTask ==
    \A r \in Reqs : \A k \in CallIdx(r) :
        HostError(calls[r][k]) =>
            /\ TaskState(r) = "ERROR"
            /\ k = Len(calls[r])

\* the runs whose commits a repository holds
Committers(repo) == { repo.files[k].by : k \in 1..Len(repo.files) }

\* C14: a repository is never merged into: at every moment all the files it
\* holds were committed by one task run.
C14_NeverMerged ==
    \A n \in RepoNames :
        repos[n].exists => Cardinality(Committers(repos[n])) <= 1

\* the order of the external calls of one task: `b` may directly follow `a`
Follows(a, b) ==
    CASE a = "llm_html" -> b = "llm_readme"
      [] a = "llm_readme" -> b = "get_repo"
      [] a = "get_repo" -> b \in {"delete", "create_repo"}
      [] a = "delete" -> b = "create_repo"
      [] a = "create_repo" -> b = "LICENSE"
      [] a = "LICENSE" -> b = "README.md"
      [] a = "README.md" -> b = "index.html"
      [] a = "index.html" -> b = ".github/workflows/deploy.yml"
      [] a = ".github/workflows/deploy.yml" -> b = "get_branch"
      [] a = "get_branch" -> b = "post"
      [] a = "post" -> b = "post"

\* C15: the external calls of a task come in the fixed order generation of
\* the code, of the documentation, existence check, optional delete, create,
\* the commits of LICENSE, README.md, index.html and
\* .github/workflows/deploy.yml, branch read, notification; and no call
\* other than a repeated POST is made unless the call before it succeeded.
C15_FixedOrder ==
    \A r \in Reqs :
        /\ calls[r] # <<>> => calls[r][1].op = "llm_html"
        /\ \A j \in 1..(Len(calls[r]) - 1) :
              /\ Follows(calls[r][j].op, calls[r][j+1].op)
              /\ calls[r][j].op # "post" => calls[r][j].out \in {Ok, NotFound}

\* how often the task of r has made the call `op`
Count(r, op) == Cardinality({ k \in CallIdx(r) : calls[r][k].op = op })

\* C16: a task makes each language-model request, the repository creation
\* and each of the four commits (and every other repository call) at most
\* once, and at most 5 callback POSTs.
C16_OnlyNotifierRetries ==
    \A r \in Reqs :
        /\ \A op \in LlmOps \cup RepoOps : Count(r, op) <= 1
        /\ Count(r, "post") <= 5

C16_Witness ==
    /\ \E r \in Reqs : Count(r, "post") = 5 /\ Count(r, "create_repo") = 1
    /\ \E r \in Reqs : TaskState(r) = "ERROR" /\ Raised(r, "README.md")

\* C17: when the i-th of the four commits of a task fails, the task is in
\* ERROR, that commit is its last call and it has sent no callback; as it
\* fails, the repository exists and holds exactly the i-1 files the task
\* committed before, in their order.
C17_PartialRepoLeft ==
    /\ [](\A r \in Reqs : \A k \in CallIdx(r) :
            (calls[r][k].op \in FilePaths /\ calls[r][k].out # Ok) =>
                /\ TaskState(r) = "ERROR"
                /\ k = Len(calls[r])
                /\ Posts(r) = 0)
    /\ [][\A r \in Reqs :
            (tpc[r] = "create_file" /\ tpc'[r] = "error") =>
                LET repo == repos'[repo_name(r)]
                IN /\ repo.exists
                   /\ Len(repo.files) = fileIdx[r]
                   /\ \A k \in 1..Len(repo.files) :
                         /\ repo.files[k].by = r
                         /\ repo.files[k].path = FilePath(k)]_vars

\* C18: notify_evaluator sleeps only between attempts: False is returned
\* right after the fifth failed POST, the sleeps having been 1, 2, 4, 8.
C18_WaitsOnlyBetweenAttempts ==
    \A r \in Reqs :
        /\ Len(waits[r]) <= 4
        /\ result[r] = "False" => waits[r] = <<1, 2, 4, 8>>

\* C19: every started task eventually reaches DONE or ERROR.
C19_TaskTerminates ==
    \A r \in Reqs : Accepted(r) ~> (TaskState(r) \in {"DONE", "ERROR"})

C19_Witness ==
    /\ \E r \in Reqs : TaskState(r) = "DONE" /\ Count(r, "post") = 5
    /\ \E r \in Reqs : TaskState(r) = "ERROR" /\ Raised(r, "get_branch")

\* C20: a request whose body has no `secret` field is never accepted and
\* starts no task, whatever the expected secret, unset included.
C20_NoSecretNeverAccepted ==
    \A r \in Reqs :
        (Handled(r) /\ data[r].secret = None) =>
            /\ ~Accepted(r)
            /\ resp[r].status # 200

====
